---- MODULE Spec2Model ----
(***************************************************************************)
(* Model of taskflow/engines/action_engine/executor.py: the operation      *)
(* runners _execute_task/_revert_task under _autobind, the serial executor *)
(* and the parallel executor with an owned or a borrowed worker pool.      *)
(***************************************************************************)
EXTENDS Integers, Sequences, FiniteSets, TLC

\* ------------------------------------------------------------------ bounds
MaxOps == 2          \* execute_task/revert_task calls made in one behaviour
MaxPools == 2        \* worker pools that exist in one behaviour

\* ------------------------------------------------------------------ inputs
Tasks == {"A", "B"}
None == 0

\* threading_utils.get_optimal_thread_count(): the workers of a pool.
get_optimal_thread_count == 2

\* A fault raised by one of the task's operations.  cls is what the
\* `except Exception` clause distinguishes; src is the operation that raised:
\* "callback" is the progress callback raising while execute/revert runs it.
NoFault == [cls |-> "none", src |-> "none"]
Fault(cls, src) == [cls |-> cls, src |-> src]
\* What execute/revert may raise: an Exception of the task's own, an Exception
\* of the progress callback it runs, or a BaseException that is no Exception
\* (KeyboardInterrupt, SystemExit).
CallFaults == {Fault("Exception", "call"), Fault("Exception", "callback"),
               Fault("BaseException", "call")}
BindFaults == {Fault("Exception", "bind")}
UnbindFaults == {Fault("Exception", "unbind")}

\* Results: the value the task returned or a Failure capturing a fault.
ReturnValues == {42}
NoResult == [tag |-> "none", val |-> 0, exc_info |-> NoFault]
Value(v) == [tag |-> "value", val |-> v, exc_info |-> NoFault]

\* misc.Failure(): captures the exception being handled.
Failure(f) == [tag |-> "failure", val |-> 0, exc_info |-> f]

NoOutcome == [task |-> "none", verb |-> "none", result |-> NoResult]

\* Argument mappings the caller passes (name -> value) and the values it passes
\* for result and failures.
ArgumentChoices == {[x |-> 1, result |-> 5]}
PriorResults == {7}
PriorFailures == {8}

VARIABLES
    kind,           \* "serial" | "owned" | "borrowed": the executor constructed
    _executor,      \* ParallelTaskExecutor._executor: a pool id or None
    _own_executor,  \* ParallelTaskExecutor._own_executor
    pools,          \* pool id -> [shutdown, external]: the pools that exist
    futures,        \* per execute_task/revert_task call, what it handed back:
                    \* a future (PENDING, RUNNING, RESULT, EXCEPTION), the error
                    \* it raised, or INLINE while a serial call is running
    work,           \* call id -> the frame of its runner, from the submission
                    \* until what the runner returned or raised is handed over
    bound,          \* task -> calls whose progress callback is bound on it
    pc,             \* the calling thread: ready | inline | stopping | waiting | wait_ret
    lastErr,        \* the error the latest start/stop call raised, or "none"
    started,        \* lifecycle: "CREATED" | "STARTED" | "STOPPED"
    waitFs,         \* futures handed to the wait_for_any in progress
    waitResult      \* (done, not_done) the wait_for_any in progress returns

vars == <<kind, _executor, _own_executor, pools, futures, work, bound, pc,
          lastErr, started, waitFs, waitResult>>

\* ------------------------------------------------------------- helpers
CallIds == 1..Len(futures)

Parallel == kind # "serial"

\* A future is resolved once a result or an exception has been set on it.
Resolved(i) == futures[i] \in {"RESULT", "EXCEPTION"}

\* The futures handed out so far.
Futures == {i \in CallIds : futures[i] \in {"PENDING", "RUNNING", "RESULT", "EXCEPTION"}}

\* The work of pool p that a worker is running.
Running(p) == {i \in DOMAIN work : work[i].pool = p /\ work[i].pc # "queued"}

\* The work of pool p that has not finished.
Unfinished(p) == {i \in DOMAIN work : work[i].pool = p}

\* The pool's work queue is first in, first out.
QueueHead(p, i) ==
    /\ work[i].pool = p
    /\ work[i].pc = "queued"
    /\ \A j \in DOMAIN work : (work[j].pool = p /\ work[j].pc = "queued") => i <= j

\* ParallelTaskExecutor.__init__: the executor owns the pool iff none was given.
OwnExecutor(executor) == executor = None

\* `except Exception` in the runners: which faults become a Failure.
Caught(f) == f.cls = "Exception"

\* A kwargs in which the caller's own result/flow_failures entries win.
RevertKwargsKeep(arguments, result, failures) ==
    [k \in (DOMAIN arguments) \cup {"result", "flow_failures"} |->
        IF k \in DOMAIN arguments THEN arguments[k]
        ELSE IF k = "result" THEN result
        ELSE failures]

\* _revert_task: kwargs = arguments.copy() extended with result and flow_failures.
RevertKwargs(arguments, result, failures) ==
    [k \in (DOMAIN arguments) \cup {"result", "flow_failures"} |->
        IF k = "result" THEN result
        ELSE IF k = "flow_failures" THEN failures
        ELSE arguments[k]]

\* _execute_task passes the caller's mapping itself.
ExecuteKwargs(arguments) == arguments

\* The frame of a runner call that has not begun.
NewFrame(t, verb, arguments, kwargs, pool) ==
    [task |-> t, verb |-> verb, arguments |-> arguments, kwargs |-> kwargs,
     pool |-> pool, pc |-> "queued", binds |-> 0, unbinds |-> 0, invoked |-> 0,
     exc |-> NoFault, result |-> NoResult, ret |-> NoOutcome]

Put(i, frame) == [j \in DOMAIN work \cup {i} |-> IF j = i THEN frame ELSE work[j]]

Drop(i) == [j \in DOMAIN work \ {i} |-> work[j]]

NoWait == [done |-> {}, not_done |-> {}]

\* ------------------------------------------------------------------ Init
\* The state after construction: SerialTaskExecutor(), ParallelTaskExecutor()
\* or ParallelTaskExecutor(executor=pool 1), pool 1 being the caller's.
Init ==
    /\ kind \in {"serial", "owned", "borrowed"}
    /\ pools = IF kind = "borrowed"
               THEN <<[shutdown |-> FALSE, external |-> TRUE]>>
               ELSE <<>>
    /\ _executor = IF kind = "borrowed" THEN 1 ELSE None
    /\ _own_executor = (kind # "serial" /\ OwnExecutor(_executor))
    /\ futures = <<>>
    /\ work = [j \in {} |-> NoFault]
    /\ bound = [t \in Tasks |-> {}]
    /\ pc = "ready"
    /\ lastErr = "none"
    /\ started = "CREATED"
    /\ waitFs = {}
    /\ waitResult = NoWait

\* ----------------------------------------------------------- lifecycle
\* A start that creates a pool whether the executor owns its pool or not.
StartCreatesAlways == TRUE

\* ParallelTaskExecutor.start: an owning executor creates a pool, whatever it
\* holds; TaskExecutorBase.start (serial) and a borrowing executor do nothing.
StartCreates == _own_executor

Start ==
    /\ pc = "ready"
    /\ IF Parallel /\ StartCreates
       THEN /\ Len(pools) < MaxPools
            /\ pools' = Append(pools, [shutdown |-> FALSE, external |-> FALSE])
            /\ _executor' = Len(pools) + 1
       ELSE UNCHANGED <<pools, _executor>>
    /\ started' = "STARTED"
    /\ lastErr' = "none"
    /\ UNCHANGED <<kind, _own_executor, futures, work, bound, pc, waitFs, waitResult>>

\* A stop that shuts down whatever pool it holds, borrowed or not.
StopShutsDownAnyPool == TRUE

\* ParallelTaskExecutor.stop: an owning executor calls shutdown(wait=True) on
\* what it holds; on None that is an AttributeError.
StopShutsDown == _own_executor

Stop ==
    /\ pc = "ready"
    /\ IF Parallel /\ StopShutsDown
       THEN IF _executor = None
            THEN /\ lastErr' = "AttributeError"
                 /\ UNCHANGED <<pools, pc, started>>
            ELSE /\ pools' = [pools EXCEPT ![_executor].shutdown = TRUE]
                 /\ pc' = "stopping"
                 /\ lastErr' = "none"
                 /\ UNCHANGED started
       ELSE /\ lastErr' = "none"
            /\ started' = "STOPPED"
            /\ UNCHANGED <<pools, pc>>
    /\ UNCHANGED <<kind, _executor, _own_executor, futures, work, bound, waitFs,
                   waitResult>>

\* A stop that keeps its reference to the pool it has shut down.
StopReturnKeepsPool ==
    /\ pc = "stopping"
    /\ Unfinished(_executor) = {}
    /\ _executor' = _executor
    /\ pc' = "ready"
    /\ started' = "STOPPED"
    /\ lastErr' = "none"
    /\ UNCHANGED <<kind, _own_executor, pools, futures, work, bound, waitFs,
                   waitResult>>

\* shutdown(wait=True) returns once the pool's workers have drained the queue
\* and exited; stop then drops the reference.
StopReturn ==
    /\ pc = "stopping"
    /\ Unfinished(_executor) = {}
    /\ _executor' = None
    /\ pc' = "ready"
    /\ started' = "STOPPED"
    /\ lastErr' = "none"
    /\ UNCHANGED <<kind, _own_executor, pools, futures, work, bound, waitFs,
                   waitResult>>

\* --------------------------------------------------------- submission
\* A submission that, with no pool at hand, hands back a future nobody runs.
SubmitDropsWork == "PENDING"

\* self._executor.submit(...): AttributeError on None, RuntimeError on a pool
\* that was shut down, otherwise a pending future.
Submit ==
    IF _executor = None THEN "AttributeError"
    ELSE IF pools[_executor].shutdown THEN "RuntimeError"
    ELSE "PENDING"

\* The pool queues the work of a submission it accepted.
Queued(t, verb, arguments, kwargs) ==
    IF _executor # None /\ ~pools[_executor].shutdown
    THEN Put(Len(futures) + 1, NewFrame(t, verb, arguments, kwargs, _executor))
    ELSE work

\* A serial executor that hands the call back before its runner has run.
ScheduleDeferred(t, verb, arguments, kwargs) ==
    /\ Len(futures) < MaxOps
    /\ IF Parallel
       THEN /\ futures' = Append(futures, Submit)
            /\ work' = Queued(t, verb, arguments, kwargs)
            /\ pc' = pc
       ELSE /\ pc = "ready"
            /\ futures' = Append(futures, "INLINE")
            /\ work' = Put(Len(futures) + 1, NewFrame(t, verb, arguments, kwargs, None))
            /\ pc' = pc
    /\ UNCHANGED <<kind, _executor, _own_executor, pools, bound, lastErr,
                   started, waitFs, waitResult>>

\* execute_task/revert_task: the parallel executor submits the runner to the
\* pool; the serial executor runs it inline on the calling thread.
Schedule(t, verb, arguments, kwargs) ==
    /\ Len(futures) < MaxOps
    /\ IF Parallel
       THEN /\ futures' = Append(futures, Submit)
            /\ work' = Queued(t, verb, arguments, kwargs)
            /\ pc' = pc
       ELSE /\ pc = "ready"
            /\ futures' = Append(futures, "INLINE")
            /\ work' = Put(Len(futures) + 1, NewFrame(t, verb, arguments, kwargs, None))
            /\ pc' = "inline"
    /\ UNCHANGED <<kind, _executor, _own_executor, pools, bound, lastErr,
                   started, waitFs, waitResult>>

\* The caller does not run two operations on one task at the same time; tasks
\* being interchangeable, it takes the first one that has no operation running.
TaskFree(t) == \A i \in DOMAIN work : work[i].task # t

NextTask(t) == TaskFree(t) /\ (t = "B" => ~TaskFree("A"))

ExecuteTask ==
    \E t \in Tasks, arguments \in ArgumentChoices :
        /\ NextTask(t)
        /\ Schedule(t, "executed", arguments, ExecuteKwargs(arguments))

RevertTask ==
    \E t \in Tasks, arguments \in ArgumentChoices,
       result \in PriorResults, failures \in PriorFailures :
        /\ NextTask(t)
        /\ Schedule(t, "reverted", arguments, RevertKwargs(arguments, result, failures))

\* ------------------------------------------------------------- runners
\* What the runner returns once the with statement is left: the triple, or
\* nothing when a fault is pending.
Returned(frame, exc) ==
    IF exc = NoFault
    THEN [task |-> frame.task, verb |-> frame.verb, result |-> frame.result]
    ELSE NoOutcome

\* A context manager whose exit leaves the callback alone: no finally clause.
FinallyNoUnbind(frame, f) ==
    [frame EXCEPT !.pc = "returning", !.ret = Returned(frame, frame.exc)]

\* _autobind, finally: task.unbind(...) runs on every path, with fault f
\* (NoFault: none); a fault it raises replaces the pending one.  Then the
\* runner returns, or the fault leaves it.
Finally(frame, f) ==
    LET exc == IF f = NoFault THEN frame.exc ELSE f IN
    [frame EXCEPT !.pc = "returning", !.unbinds = @ + 1, !.exc = exc,
                  !.ret = Returned(frame, exc)]

\* Entering `with _autobind(...)`: task.bind(...) inside the try.  When it
\* raises, the finally clause unbinds and the with statement is never entered.
\* In a pool, a worker first takes the work from the queue and marks the
\* future running.
RunnerEnter(i) ==
    /\ work[i].pc = "queued"
    /\ work[i].pool # None =>
         /\ QueueHead(work[i].pool, i)
         /\ Cardinality(Running(work[i].pool)) < get_optimal_thread_count
    /\ \/ /\ bound' = [bound EXCEPT ![work[i].task] = @ \cup {i}]
          /\ work' = [work EXCEPT ![i].pc = "entered", ![i].binds = @ + 1]
       \/ \E b \in BindFaults, u \in {NoFault} \cup UnbindFaults :
          /\ bound' = [bound EXCEPT ![work[i].task] = @ \ {i}]
          /\ work' = [work EXCEPT ![i] = Finally([work[i] EXCEPT !.exc = b], u)]
    /\ futures' = IF work[i].pool # None
                  THEN [futures EXCEPT ![i] = "RUNNING"]
                  ELSE futures
    /\ UNCHANGED <<kind, _executor, _own_executor, pools, pc, lastErr, started,
                   waitFs, waitResult>>

\* The body of the with statement ends: task.execute(**arguments) or
\* task.revert(**kwargs) returned r, or raised fault f: a caught fault becomes
\* misc.Failure(), another one stays pending.
Body(frame, r, f) ==
    IF f = NoFault THEN [frame EXCEPT !.invoked = @ + 1, !.result = Value(r)]
    ELSE IF Caught(f) THEN [frame EXCEPT !.invoked = @ + 1, !.result = Failure(f)]
    ELSE [frame EXCEPT !.invoked = @ + 1, !.exc = f]

\* A runner whose unbind removes the callbacks of every task, not only its own.
RunnerLeaveUnbindsAll(i) ==
    /\ work[i].pc = "entered"
    /\ bound' = [t \in Tasks |-> {}]
    /\ \E r \in ReturnValues, f \in {NoFault} \cup CallFaults,
          u \in {NoFault} \cup UnbindFaults :
         work' = [work EXCEPT ![i] = Finally(Body(work[i], r, f), u)]
    /\ UNCHANGED <<kind, _executor, _own_executor, pools, futures, pc, lastErr,
                   started, waitFs, waitResult>>

\* The with statement is left: the body ends and the finally clause unbinds.
RunnerLeave(i) ==
    /\ work[i].pc = "entered"
    /\ bound' = [bound EXCEPT ![work[i].task] = @ \ {i}]
    /\ \E r \in ReturnValues, f \in {NoFault} \cup CallFaults,
          u \in {NoFault} \cup UnbindFaults :
         work' = [work EXCEPT ![i] = Finally(Body(work[i], r, f), u)]
    /\ UNCHANGED <<kind, _executor, _own_executor, pools, futures, pc, lastErr,
                   started, waitFs, waitResult>>

\* A _completed_future that hands the future back without setting its result.
HandedUnset(frame) ==
    IF frame.exc = NoFault
    THEN IF frame.pool = None THEN "PENDING" ELSE "RESULT"
    ELSE IF frame.pool # None THEN "EXCEPTION"
    ELSE "RAISED"

\* What becomes of the call once its runner has ended.  Inline, the triple is
\* wrapped in a completed future and a fault is raised to the caller; in a
\* pool, the worker sets the result or the exception on the future.
Handed(frame) ==
    IF frame.exc = NoFault THEN "RESULT"
    ELSE IF frame.pool # None THEN "EXCEPTION"
    ELSE "RAISED"

RunnerReturn(i) ==
    /\ work[i].pc = "returning"
    /\ futures' = [futures EXCEPT ![i] = Handed(work[i])]
    /\ work' = Drop(i)
    /\ pc' = IF work[i].pool = None THEN "ready" ELSE pc
    /\ UNCHANGED <<kind, _executor, _own_executor, pools, bound, lastErr,
                   started, waitFs, waitResult>>

\* -------------------------------------------------------- wait_for_any
\* The set of futures wait() reports done: those resolved when it looks.
DoneSet(fs) == {i \in fs : Resolved(i)}

\* futures.wait partitions fs by what is resolved when it looks.
Partition(fs) == [done |-> DoneSet(fs), not_done |-> fs \ DoneSet(fs)]

\* ParallelTaskExecutor.wait_for_any: futures.wait(fs, FIRST_COMPLETED), which
\* partitions fs at once when a future of fs is resolved and blocks otherwise.
\* SerialTaskExecutor.wait_for_any: return fs, [].  The caller waits for a
\* non-empty set of the futures it was handed.
WaitForAny ==
    /\ pc = "ready"
    /\ \E fs \in (SUBSET Futures) \ {{}} :
         /\ waitFs' = fs
         /\ IF ~Parallel
            THEN /\ pc' = "wait_ret"
                 /\ waitResult' = [done |-> fs, not_done |-> {}]
            ELSE IF DoneSet(fs) # {}
            THEN /\ pc' = "wait_ret"
                 /\ waitResult' = Partition(fs)
            ELSE /\ pc' = "waiting"
                 /\ waitResult' = NoWait
    /\ UNCHANGED <<kind, _executor, _own_executor, pools, futures, work, bound,
                   lastErr, started>>

\* A parallel wait_for_any that answers as the serial one does: fs, [].
WaitSnapshotAllDone ==
    /\ pc = "waiting"
    /\ waitResult' = [done |-> waitFs, not_done |-> {}]
    /\ pc' = "wait_ret"
    /\ UNCHANGED <<kind, _executor, _own_executor, pools, futures, work, bound,
                   lastErr, started, waitFs>>

\* A blocked futures.wait that wakes only once every future of fs is resolved
\* (return_when=ALL_COMPLETED).
WaitSnapshotAllCompleted ==
    /\ pc = "waiting"
    /\ DoneSet(waitFs) = waitFs
    /\ waitResult' = Partition(waitFs)
    /\ pc' = "wait_ret"
    /\ UNCHANGED <<kind, _executor, _own_executor, pools, futures, work, bound,
                   lastErr, started, waitFs>>

\* A blocked futures.wait wakes once a future of fs is resolved and partitions
\* fs by what is resolved at that moment.
WaitSnapshot ==
    /\ pc = "waiting"
    /\ DoneSet(waitFs) # {}
    /\ waitResult' = Partition(waitFs)
    /\ pc' = "wait_ret"
    /\ UNCHANGED <<kind, _executor, _own_executor, pools, futures, work, bound,
                   lastErr, started, waitFs>>

\* wait_for_any returns the partition to its caller.
WaitReturn ==
    /\ pc = "wait_ret"
    /\ waitResult' = NoWait
    /\ waitFs' = {}
    /\ pc' = "ready"
    /\ UNCHANGED <<kind, _executor, _own_executor, pools, futures, work, bound,
                   lastErr, started>>

\* ------------------------------------------------------------------ Next
Enter == \E i \in DOMAIN work : RunnerEnter(i)
Leave == \E i \in DOMAIN work : RunnerLeave(i)
Return == \E i \in DOMAIN work : RunnerReturn(i)

Next ==
    \/ Start
    \/ Stop
    \/ StopReturn
    \/ ExecuteTask
    \/ RevertTask
    \/ Enter
    \/ Leave
    \/ Return
    \/ WaitForAny
    \/ WaitSnapshot
    \/ WaitReturn

Spec == Init /\ [][Next]_vars

\* The threads are scheduled fairly: a worker or caller that can take its next
\* step eventually does.
FairSpec ==
    /\ Spec
    /\ WF_vars(Enter) /\ WF_vars(Leave) /\ WF_vars(Return)
    /\ WF_vars(StopReturn) /\ WF_vars(WaitSnapshot) /\ WF_vars(WaitReturn)

TypeOK ==
    /\ kind \in {"serial", "owned", "borrowed"}
    /\ _executor \in 0..MaxPools
    /\ _own_executor \in BOOLEAN
    /\ Len(pools) <= MaxPools
    /\ Len(futures) <= MaxOps
    /\ DOMAIN work \subseteq CallIds
    /\ pc \in {"ready", "inline", "stopping", "waiting", "wait_ret"}
    /\ started \in {"CREATED", "STARTED", "STOPPED"}


\* ================================================================ claims
\* A future holds what the runner returned (ret) or raised (exc), unchanged;
\* the frame is where the model keeps both until they are handed over.
Returns(i) == i \in DOMAIN work /\ work[i].pc = "returning" /\ i \notin DOMAIN work'

Errors == {"AttributeError", "RuntimeError", "RAISED"}

\* C1: when execute/revert (or the progress callback it runs) raises an
\* exception, the call ends with a future resolved to
\* (task, verb, Failure of that exception) and nothing raised to the caller.
C1_FaultBecomesFailure ==
    [][\A i \in CallIds :
         (Returns(i) /\ work[i].result.tag = "failure") =>
             /\ futures'[i] = "RESULT"
             /\ work[i].ret = [task |-> work[i].task, verb |-> work[i].verb,
                               result |-> work[i].result]
             /\ work[i].exc = NoFault]_vars

\* C2: every runner call ends with exactly one outcome and lets no fault
\* escape, whichever of bind, execute, revert and unbind raised.
C2_RunnerNeverRaises ==
    \A i \in DOMAIN work :
        (work[i].pc = "returning") =>
            /\ work[i].ret # NoOutcome
            /\ work[i].exc = NoFault

\* C3: the runner unbinds the callback exactly as often as it bound it: never
\* without a successful bind, and once per bind when the call has ended.
C3_BindUnbindBalanced ==
    \A i \in DOMAIN work :
        /\ work[i].unbinds <= work[i].binds
        /\ (work[i].pc = "returning") => work[i].unbinds = work[i].binds

\* C4: stop() raises nothing, in whatever lifecycle state it is called.
C4_StopNeverRaises == lastErr = "none"

\* C5: start() on a started executor creates no second pool: the only pool of
\* the executor's own that is not shut down is the one it holds.
C5_StartIdempotent ==
    \A p \in 1..Len(pools) :
        (~pools[p].external /\ ~pools[p].shutdown) => _executor = p

\* C6: a borrowing executor keeps the pool it was given, and that pool is
\* never shut down, whatever was called.
C6_BorrowedPoolUntouched ==
    (kind = "borrowed") =>
        /\ _executor = 1
        /\ Len(pools) = 1
        /\ pools[1].external
        /\ ~pools[1].shutdown

\* C6 witness: stop() was called on a borrowing executor and its pool holds work.
C6_Witness ==
    /\ kind = "borrowed"
    /\ started = "STOPPED"
    /\ \E i \in DOMAIN work : work[i].pool = 1 /\ work[i].pc = "queued"

\* C7: once stop() has returned on an owning executor, every future the
\* executor handed out is resolved.
C7_StopWaitsForAll ==
    (kind = "owned" /\ started = "STOPPED") =>
        \A i \in Futures : Resolved(i)

\* C8 (safety part): no future ends in an error state.
C8_NoFutureError ==
    \A i \in CallIds : futures[i] # "EXCEPTION"

\* C8 (liveness part, under FairSpec): a future that was handed out resolves.
C8_EventuallyResolved ==
    \A i \in 1..MaxOps :
        (Len(futures) >= i /\ futures[i] \in {"PENDING", "RUNNING"})
            ~> (Len(futures) >= i /\ Resolved(i))

\* C9: on an owning executor, after stop() the pool created by the latest
\* start() is shut down and no pool is held; a submission made while the
\* executor is not started raises, hands back no future and runs nothing,
\* then or later.
C9_NotStartedRejects ==
    /\ [](kind = "owned" /\ started = "STOPPED" =>
            /\ _executor = None
            /\ Len(pools) > 0
            /\ pools[Len(pools)].shutdown)
    /\ [][(kind = "owned" /\ started # "STARTED" /\ Len(futures') = Len(futures) + 1) =>
            /\ futures'[Len(futures')] \in {"AttributeError", "RuntimeError"}
            /\ work' = work]_vars
    /\ [][\A i \in CallIds : futures[i] \in Errors =>
            /\ futures'[i] = futures[i]
            /\ i \notin DOMAIN work']_vars

\* C9 witness: a submission was refused on a stopped owning executor.
C9_Witness ==
    /\ kind = "owned"
    /\ started = "STOPPED"
    /\ \E i \in CallIds : futures[i] = "AttributeError"

\* What parallel wait_for_any hands back: a partition of its input whose done
\* part is non-empty and resolved.
WaitPartition ==
    /\ waitResult.done \cap waitResult.not_done = {}
    /\ waitResult.done \cup waitResult.not_done = waitFs
    /\ waitResult.done # {}
    /\ \A f \in waitResult.done : Resolved(f)

ParallelWaitReturns == Parallel /\ pc = "wait_ret" /\ pc' = "ready"

\* C10 as claimed: at the return of parallel wait_for_any the answer is such a
\* partition and every future in not-done is unresolved.
C10_PartitionAtReturn ==
    [][ParallelWaitReturns =>
         /\ WaitPartition
         /\ \A f \in waitResult.not_done : ~Resolved(f)]_vars

\* C10 amended: at the return the answer is such a partition, and every future
\* in not-done was unresolved when futures.wait partitioned the input.
C10_PartitionAtSnapshot ==
    /\ [][ParallelWaitReturns => WaitPartition]_vars
    /\ [][(Parallel /\ pc # "wait_ret" /\ pc' = "wait_ret") =>
            /\ waitResult'.done \cup waitResult'.not_done = waitFs'
            /\ waitResult'.done # {}
            /\ \A f \in waitResult'.done : Resolved(f)
            /\ \A f \in waitResult'.not_done : ~Resolved(f)]_vars

\* C10 witness: a parallel wait_for_any is returning a done and a not-done part.
C10_Witness ==
    /\ Parallel
    /\ pc = "wait_ret"
    /\ waitResult.done # {}
    /\ waitResult.not_done # {}

\* C11: parallel wait_for_any does not wait for all futures: while it blocks,
\* one resolved future of its input is enough for it to return, whatever the
\* other futures of the input are doing.
C11_ReturnsOnFirstDone ==
    (Parallel /\ pc = "waiting" /\ DoneSet(waitFs) # {}) => ENABLED WaitSnapshot

\* C11 witness: a blocked wait_for_any({futA, futB}) has returned with futA
\* done while B's operation is still running in the pool.
C11_Witness ==
    /\ Parallel
    /\ pc = "wait_ret"
    /\ \E a \in waitResult.done, b \in waitResult.not_done :
          /\ a # b
          /\ futures[b] = "RUNNING"
          /\ b \in DOMAIN work
          /\ work[b].pc = "entered"

\* C12: every future the serial executor hands back is resolved when the call
\* returns, and serial wait_for_any never blocks and answers with its whole
\* input as done and nothing as not-done, every future it reports done being
\* resolved.
C12_SerialFuturesResolved ==
    (kind = "serial") =>
        /\ \A i \in CallIds : futures[i] \in {"INLINE", "RESULT", "RAISED"}
        /\ \A i \in Futures : Resolved(i)
        /\ pc # "waiting"
        /\ (pc = "wait_ret") =>
             /\ waitResult = [done |-> waitFs, not_done |-> {}]
             /\ \A f \in waitResult.done : Resolved(f)

\* C12 witness: serial wait_for_any is answering for two futures handed back
\* by an execute_task and a revert_task call.
C12_Witness ==
    /\ kind = "serial"
    /\ pc = "wait_ret"
    /\ Cardinality(waitFs) = 2
    /\ waitResult.done = waitFs

\* C13: revert_task(T, args, result=R, failures=F) invokes T.revert with the
\* keys of args plus result = R and flow_failures = F, these two overriding
\* entries of args with the same name, and the caller's args mapping is the
\* one it passed, before, during and after the call, whether revert returns
\* or faults.
C13_RevertKwargs ==
    \A i \in DOMAIN work :
        /\ work[i].arguments \in ArgumentChoices
        /\ (work[i].verb = "reverted") =>
             /\ DOMAIN work[i].kwargs =
                    (DOMAIN work[i].arguments) \cup {"result", "flow_failures"}
             /\ work[i].kwargs["result"] \in PriorResults
             /\ work[i].kwargs["flow_failures"] \in PriorFailures
             /\ \A k \in (DOMAIN work[i].arguments) \ {"result", "flow_failures"} :
                    work[i].kwargs[k] = work[i].arguments[k]

\* C13 witness: T.revert was invoked with args holding a result entry of its
\* own, and faulted.
C13_Witness ==
    \E i \in DOMAIN work :
        /\ work[i].verb = "reverted"
        /\ work[i].invoked = 1
        /\ work[i].result.tag = "failure"
        /\ "result" \in DOMAIN work[i].arguments
        /\ work[i].arguments["result"] # work[i].kwargs["result"]

\* C14: each execute_task/revert_task call invokes the task's execute/revert
\* exactly once, and when that invocation returns a value v without a fault
\* the call's outcome is exactly (the task, the verb requested, v).
C14_InvokedOnceExactOutcome ==
    \A i \in DOMAIN work :
        /\ work[i].invoked <= 1
        /\ (work[i].pc = "returning") =>
             /\ work[i].invoked = 1
             /\ (work[i].result.tag = "value") =>
                    work[i].ret = [task |-> work[i].task, verb |-> work[i].verb,
                                   result |-> work[i].result]

\* C14, the part about retries: execute/revert is never invoked a second
\* time, and an outcome carries the task and the verb of its call.
C14_NoRetry ==
    \A i \in DOMAIN work :
        /\ work[i].invoked <= 1
        /\ (work[i].ret # NoOutcome) =>
             /\ work[i].ret.task = work[i].task
             /\ work[i].ret.verb = work[i].verb

\* C15: start() after stop() on an owning executor creates a fresh pool of its
\* own that accepts submissions, and the next stop() shuts down that pool; on
\* a borrowing executor start() after stop() creates nothing and the executor
\* keeps the pool it was given.
C15_RestartRecreatesOwnedPool ==
    /\ [][(Parallel /\ started = "STOPPED" /\ started' = "STARTED") =>
            IF kind = "owned"
            THEN /\ Len(pools') = Len(pools) + 1
                 /\ _executor' = Len(pools')
                 /\ ~pools'[_executor'].shutdown
                 /\ ~pools'[_executor'].external
                 /\ Submit' = "PENDING"
            ELSE /\ pools' = pools
                 /\ _executor' = 1
                 /\ _executor = 1]_vars
    /\ [][(kind = "owned" /\ pc = "ready" /\ pc' = "stopping") =>
            /\ _executor' = _executor
            /\ pools'[_executor].shutdown
            /\ \A p \in 1..Len(pools) :
                   (p # _executor) => pools'[p] = pools[p]]_vars

\* C15 witness: an owning executor was started, stopped and started again, and
\* its second pool has taken a submission.
C15_Witness ==
    /\ kind = "owned"
    /\ started = "STARTED"
    /\ Len(pools) = 2
    /\ pools[1].shutdown
    /\ _executor = 2
    /\ ~pools[2].shutdown
    /\ \E i \in DOMAIN work : work[i].pool = 2

\* C16: within one operation the order is bind, invoke, unbind, outcome
\* delivered: the callback is bound while execute/revert runs, the runner has
\* called unbind before it returns or raises, and a future that is resolved
\* belongs to an operation that has ended and has no callback bound.
C16_UnboundBeforeResolved ==
    /\ \A i \in CallIds :
           Resolved(i) =>
               /\ i \notin DOMAIN work
               /\ \A t \in Tasks : i \notin bound[t]
    /\ \A i \in DOMAIN work :
           /\ (work[i].pc = "queued") =>
                  work[i].binds = 0 /\ work[i].invoked = 0 /\ work[i].unbinds = 0
           /\ (work[i].pc = "entered") =>
                  /\ work[i].binds = 1 /\ work[i].invoked = 0 /\ work[i].unbinds = 0
                  /\ i \in bound[work[i].task]
           /\ (work[i].pc = "returning") =>
                  /\ work[i].invoked <= work[i].binds
                  /\ work[i].unbinds = 1
                  /\ i \notin bound[work[i].task]

\* C16 witness: one future resolved with a result and one with a fault, and no
\* callback is bound on any task.
C16_Witness ==
    /\ \E i, j \in CallIds : futures[i] = "RESULT" /\ futures[j] = "EXCEPTION"
    /\ \A t \in Tasks : bound[t] = {}

\* C17: on the parallel executor, no task being used by two overlapping
\* operations, every task whose execute/revert is running has exactly the
\* callback of that operation bound, and a callback is bound only while its
\* operation is running: an operation that finishes takes away its own
\* callback and no other.
C17_BindingsDoNotInterfere ==
    Parallel =>
        /\ \A i \in DOMAIN work :
               (work[i].pc = "entered") => bound[work[i].task] = {i}
        /\ \A t \in Tasks : \A i \in bound[t] :
               /\ i \in DOMAIN work
               /\ work[i].task = t
               /\ work[i].pc = "entered"

\* C17 witness: two operations on distinct tasks overlapped in the pool; one
\* has finished and unbound its callback while the other is still running
\* with its own callback bound.
C17_Witness ==
    /\ Parallel
    /\ \E i, j \in DOMAIN work :
           /\ work[i].task # work[j].task
           /\ work[i].pc = "entered"
           /\ work[j].pc = "returning"
           /\ work[j].binds = 1
           /\ work[j].unbinds = 1
           /\ bound[work[i].task] = {i}

\* C18: the serial executor runs each operation inline, to completion, before
\* the call returns: at most one operation exists at a time, it is the one of
\* the latest call, every earlier call has ended (handed back its resolved
\* future or raised) with its callback unbound, and between calls nothing
\* runs and nothing is bound.
C18_SerialRunsInline ==
    (kind = "serial") =>
        /\ DOMAIN work \subseteq {Len(futures)}
        /\ (DOMAIN work # {}) <=> (pc = "inline")
        /\ \A i \in CallIds :
               IF i \in DOMAIN work
               THEN futures[i] = "INLINE"
               ELSE futures[i] \in {"RESULT", "RAISED"}
        /\ \A t \in Tasks : bound[t] \subseteq DOMAIN work

\* C18 witness: the second call's operation is running inline after the first
\* call has handed back its resolved future.
C18_Witness ==
    /\ kind = "serial"
    /\ Len(futures) = 2
    /\ futures[1] = "RESULT"
    /\ 2 \in DOMAIN work
    /\ work[2].pc = "entered"
    /\ bound[work[2].task] = {2}

\* C19: the ownership flag is the one set at construction; between start()
\* and stop() calls an owning executor holds a pool exactly when it is started
\* (none before the first start(), none after stop()), and that pool is one it
\* created and has not shut down; a borrowing executor always holds exactly
\* the pool it was given.
C19_PoolReferenceInvariant ==
    /\ _own_executor = (kind = "owned")
    /\ (kind = "owned" /\ pc # "stopping") =>
           /\ (_executor # None) <=> (started = "STARTED")
           /\ (_executor # None) =>
                  /\ _executor \in 1..Len(pools)
                  /\ ~pools[_executor].external
                  /\ ~pools[_executor].shutdown
    /\ (kind = "borrowed") =>
           /\ _executor = 1
           /\ pools[1].external

\* C19 witness: an owning executor has been through start() and stop() twice
\* and holds no pool.
C19_Witness ==
    /\ kind = "owned"
    /\ started = "STOPPED"
    /\ pc = "ready"
    /\ _executor = None
    /\ Len(pools) = 2
    /\ pools[1].shutdown
    /\ pools[2].shutdown

====
